---- MODULE Spec2Model ----
(***************************************************************************)
(* Model of minimodem/modem.py: the MiniModem half-duplex channel (one     *)
(* minimodem subprocess), the Modem duplex link built from two channels,   *)
(* the HDLC-like framing of Modem.send and the receive loop                *)
(* Modem._rx_loop.                                                         *)
(*                                                                         *)
(* Bytes are their integer values 0..255; a byte string is a sequence of   *)
(* bytes.  Python indices are 0-based and the operators below keep them    *)
(* 0-based, so that comparisons such as end > start read as in the code.   *)
(***************************************************************************)
EXTENDS Integers, Sequences, FiniteSets, TLC

VARIABLES
    online,       \* Modem.online
    mm_online,    \* [channel -> MiniModem.online]
    process,      \* [channel -> MiniModem.process]: 0 is None, else an index of procs
    procs,        \* every subprocess launched so far: [ch, st]
    loops,        \* every _rx_loop thread spawned so far, see NewLoop
    stops,        \* every MiniModem.stop call made so far, see StopTask
    rx_callback,  \* Modem.rx_callback: "None" or the name of a function
    stream,       \* bytes the receive device has still to produce
    tx_written,   \* bytes received so far by the transmit subprocess on stdin
    rx_stdin,     \* bytes received so far by the receive subprocess on stdin
    delivered,    \* payloads the callback has been invoked with, in order
    sent,         \* payloads of the Modem.send calls that returned normally
    call,         \* the latest call of the public interface and its outcome
    ncalls,       \* number of calls of the public interface so far
    feed          \* how the receive device's bytes were composed

vars == <<online, mm_online, process, procs, loops, stops, rx_callback,
          stream, tx_written, rx_stdin, delivered, sent, call, ncalls, feed>>

-----------------------------------------------------------------------------
(* Bounds of the model *)

\* Modem.MTU, an attribute the caller may set; the default 500 is scaled down
MTU == 3
\* longest noise drawn over the whole alphabet before a frame
MaxNoiseBefore == 2
\* longest noise after a frame
MaxNoiseAfter == 1
\* longest garbage A between a leading stop flag and the start flag
MaxGarbage == 2
\* bytes by which a pure-noise stream outgrows the clearing threshold
NoiseExtra == 3
\* subprocesses launched for one channel in one behaviour
MaxProcs == 2
\* receive-loop threads spawned in one behaviour
MaxLoops == 2
\* MiniModem.stop calls in one behaviour
MaxStops == 2
\* calls of the public interface in one behaviour
MaxCalls == 3

-----------------------------------------------------------------------------
(* HDLC flags and byte strings *)

START == <<124, 45, 62>>    \* b'|->'
STOP  == <<60, 45, 124>>    \* b'<-|'

\* the threshold factor of the no-start-flag branch
ClearFactor == 10

\* the bytes streams are drawn from: the flag characters, the letter a and
\* 0xC3, a byte that is not valid UTF-8 on its own
Letter == <<97>>
Alphabet == {124, 45, 62, 60, 97, 195}
TextAlphabet == {b \in Alphabet : b < 128}

\* all byte strings over S with length in lo..hi
SeqsOver(S, lo, hi) == UNION {[1..n -> S] : n \in lo..hi}

\* the string made of n copies of byte string s
RECURSIVE Repeat(_, _)
Repeat(s, n) == IF n <= 0 THEN <<>> ELSE s \o Repeat(s, n - 1)

SetMin(S) == CHOOSE k \in S : \A j \in S : k <= j
SetMax(S) == CHOOSE k \in S : \A j \in S : k >= j

\* sub occurs in s at 0-based index k
MatchAt(s, sub, k) ==
    /\ k >= 0
    /\ k + Len(sub) <= Len(s)
    /\ SubSeq(s, k + 1, k + Len(sub)) = sub

\* s.find(sub, from): lowest index >= from where sub occurs, or -1
Find(s, sub, from) ==
    LET hits == {k \in from..(Len(s) - Len(sub)) : MatchAt(s, sub, k)}
    IN  IF hits = {} THEN -1 ELSE SetMin(hits)

\* s.rfind(sub): highest index where sub occurs, or -1
RFind(s, sub) ==
    LET hits == {k \in 0..(Len(s) - Len(sub)) : MatchAt(s, sub, k)}
    IN  IF hits = {} THEN -1 ELSE SetMax(hits)

\* sub in s
Contains(s, sub) == Find(s, sub, 0) /= -1

\* s[i:], with Python's clamping of the index
SliceFrom(s, i) ==
    LET n == Len(s)
        k == IF i < 0 THEN (IF n + i < 0 THEN 0 ELSE n + i)
                      ELSE (IF i > n THEN n ELSE i)
    IN  SubSeq(s, k + 1, n)

\* s[i:j] for 0 <= i, 0 <= j
Slice(s, i, j) ==
    LET n == Len(s)
        hi == IF j > n THEN n ELSE j
    IN  SubSeq(s, i + 1, hi)

-----------------------------------------------------------------------------
(* Modem._receive: one byte, or nothing when it does not decode *)

\* bytes.decode('utf-8') of a string of at most one byte succeeds
Decodes(data) == \A k \in 1..Len(data) : data[k] < 128

Validate(data) == IF Decodes(data) THEN data ELSE <<>>

\* what the loop has appended to its buffer after reading all of s
RECURSIVE Validated(_)
Validated(s) ==
    IF s = <<>> THEN <<>> ELSE Validate(<<Head(s)>>) \o Validated(Tail(s))

-----------------------------------------------------------------------------
(* One pass of Modem._rx_loop over the buffer *)

\* index just past the first start flag
FrameStart(buf) == Find(buf, START, 0) + Len(START)

\* index of the first stop flag at or after start
FrameEnd(buf, start) == Find(buf, STOP, start)

\* the buffer once the frame ending at end is taken out
AfterFrame_KeepStop(buf, end) == SliceFrom(buf, end)
AfterFrame(buf, end) == SliceFrom(buf, end + Len(STOP))

\* the buffer once mixed-up flags are dropped from its beginning
AfterBadData(buf, start) == SliceFrom(buf, start + Len(START))

WithinMTU_OffByOne(data) == Len(data) <= MTU + 1
WithinMTU(data) == Len(data) <= MTU

\* no stop flag and the buffer is over the packet size
OverLength(buf) == Len(buf) > MTU

AfterOverLength(buf) == SliceFrom(buf, RFind(buf, START))

NoiseOverflow_OffByOne(buf) == Len(buf) > ClearFactor * Len(START) + 1
NoiseOverflow(buf) == Len(buf) > ClearFactor * Len(START)

\* the buffer after the pass, the packet found (if any) and whether it is
\* handed to the callback
FramePass(buf) ==
    IF Contains(buf, START)
    THEN IF Contains(buf, STOP)
         THEN LET start == FrameStart(buf)
                  end   == FrameEnd(buf, start)
              IN  IF end > start
                  THEN LET data == Slice(buf, start, end)
                       IN  [buf |-> AfterFrame(buf, end), found |-> TRUE,
                            data |-> data, receive |-> WithinMTU(data)]
                  ELSE [buf |-> AfterBadData(buf, start), found |-> FALSE,
                        data |-> <<>>, receive |-> FALSE]
         ELSE [buf |-> IF OverLength(buf) THEN AfterOverLength(buf) ELSE buf,
               found |-> FALSE, data |-> <<>>, receive |-> FALSE]
    ELSE [buf |-> IF NoiseOverflow(buf) THEN <<>> ELSE buf,
          found |-> FALSE, data |-> <<>>, receive |-> FALSE]

-----------------------------------------------------------------------------
(* How the bytes of the receive device are composed *)

\* kind "frame": pre START P STOP post;  kind "two": START P STOP START Q STOP;
\* kind "noise": pre alone
Feed(kind, pre, P, Q, post) ==
    [kind |-> kind, pre |-> pre, P |-> P, Q |-> Q, post |-> post]

Build(f) ==
    f.pre
    \o (IF f.kind \in {"frame", "two"} THEN START \o f.P \o STOP ELSE <<>>)
    \o (IF f.kind = "two" THEN START \o f.Q \o STOP ELSE <<>>)
    \o f.post

NoDelimiter(s) == ~Contains(s, START) /\ ~Contains(s, STOP)

\* number of bytes of the feed the loops have read so far
Consumed == Len(Build(feed)) - Len(stream)

-----------------------------------------------------------------------------
(* Subprocesses *)

Channels == {"rx", "tx"}

Alive(p) == procs[p].st \in {"running", "terminating"}

NoArg == [type |-> "none", val |-> <<>>]

Call(op, ch, was, arg, raised) ==
    [op |-> op, ch |-> ch, was_online |-> was, arg |-> arg, raised |-> raised]

\* the channels, in the order given, that a start would launch a process for
NeedsLaunch_Always(ch) == TRUE
NeedsLaunch(ch) == ~mm_online[ch]

RECURSIVE Launches(_)
Launches(chs) ==
    IF chs = <<>> THEN <<>>
    ELSE (IF NeedsLaunch(Head(chs))
          THEN <<[ch |-> Head(chs), st |-> "running"]>> ELSE <<>>)
         \o Launches(Tail(chs))

\* the bound on subprocesses is kept when the processes in new are launched
Launchable(new) ==
    \A ch \in Channels :
        Cardinality({k \in 1..Len(procs) : procs[k].ch = ch})
        + Cardinality({k \in 1..Len(new) : new[k].ch = ch}) <= MaxProcs

\* MiniModem.process of ch after the processes in new were appended to procs
ProcessAfter(new, ch) ==
    LET hits == {k \in 1..Len(new) : new[k].ch = ch}
    IN  IF hits = {} THEN process[ch] ELSE Len(procs) + SetMax(hits)

-----------------------------------------------------------------------------
(* MiniModem.start, called directly on one channel *)

MiniModemStart(ch) ==
    LET new == Launches(<<ch>>) IN
    /\ ncalls < MaxCalls
    /\ Launchable(new)
    /\ procs' = procs \o new
    /\ process' = [process EXCEPT ![ch] = ProcessAfter(new, ch)]
    /\ mm_online' = [mm_online EXCEPT ![ch] = IF new = <<>> THEN @ ELSE TRUE]
    /\ call' = Call("mm_start", ch, mm_online[ch], NoArg, "none")
    /\ ncalls' = ncalls + 1
    /\ UNCHANGED <<online, loops, stops, rx_callback, stream, tx_written, rx_stdin,
                   delivered, sent, feed>>

(* MiniModem.stop: the call is a task of its own, whether the caller runs it
   or Modem.stop hands it to a thread *)

\* target: the process terminate was called on; killed: the one kill was
StopTask(ch) ==
    [ch |-> ch, pc |-> "l119", was_online |-> mm_online[ch], target |-> 0,
     killed |-> 0]

MiniModemStop(ch) ==
    /\ ncalls < MaxCalls
    /\ Len(stops) < MaxStops
    /\ stops' = Append(stops, StopTask(ch))
    /\ call' = Call("mm_stop", ch, mm_online[ch], NoArg, "none")
    /\ ncalls' = ncalls + 1
    /\ UNCHANGED <<online, mm_online, process, procs, loops, rx_callback,
                   stream, tx_written, rx_stdin, delivered, sent, feed>>

\* self.online = False; self.process.terminate(); the thread that runs
\* communicate is started and the manual timeout begins
StopTerminate(k) ==
    LET ch == stops[k].ch
        p  == process[ch]
    IN
    /\ stops[k].pc = "l119"
    /\ mm_online' = [mm_online EXCEPT ![ch] = FALSE]
    /\ IF p = 0
       THEN /\ stops' = [stops EXCEPT ![k].pc = "AttributeError"]
            /\ UNCHANGED procs
       ELSE /\ stops' = [stops EXCEPT ![k].pc = "wait", ![k].target = p]
            /\ procs' = [procs EXCEPT ![p].st =
                            IF @ = "running" THEN "terminating" ELSE @]
    /\ UNCHANGED <<online, process, loops, rx_callback, stream,
                   tx_written, rx_stdin, delivered, sent, call, ncalls, feed>>

\* comm_timeout seconds have passed:
\* if self.process.poll() == None: self.process.kill()
StopKill(k) ==
    LET p == process[stops[k].ch] IN
    /\ stops[k].pc = "wait"
    /\ stops' = [stops EXCEPT ![k].pc = "done",
                              ![k].killed = IF Alive(p) THEN p ELSE 0]
    /\ procs' = [procs EXCEPT ![p].st = IF Alive(p) THEN "killed" ELSE @]
    /\ UNCHANGED <<online, mm_online, process, loops, rx_callback, stream,
                   tx_written, rx_stdin, delivered, sent, call, ncalls, feed>>

\* a subprocess that was asked to terminate exits
ProcExit(p) ==
    /\ procs[p].st = "terminating"
    /\ procs' = [procs EXCEPT ![p].st = "exited"]
    /\ UNCHANGED <<online, mm_online, process, loops, stops, rx_callback,
                   stream, tx_written, rx_stdin, delivered, sent, call, ncalls, feed>>

-----------------------------------------------------------------------------
(* Modem.start, Modem.stop, Modem.set_rx_callback *)

\* stopped records that Modem.stop was called while the thread was running
NewLoop == [pc |-> "while", buf |-> <<>>, proc |-> 0, stopped |-> FALSE]

ModemStart ==
    LET new == Launches(<<"rx", "tx">>) IN
    /\ ncalls < MaxCalls
    /\ Launchable(new)
    /\ Len(loops) < MaxLoops
    /\ procs' = procs \o new
    /\ process' = [ch \in Channels |-> ProcessAfter(new, ch)]
    /\ mm_online' = [ch \in Channels |->
                        mm_online[ch] \/ \E k \in 1..Len(new) : new[k].ch = ch]
    /\ online' = TRUE
    /\ loops' = Append(loops, NewLoop)
    /\ call' = Call("modem_start", "", online, NoArg, "none")
    /\ ncalls' = ncalls + 1
    /\ UNCHANGED <<stops, rx_callback, stream, tx_written, rx_stdin, delivered, sent,
                   feed>>

ModemStop ==
    /\ ncalls < MaxCalls
    /\ Len(stops) + 2 <= MaxStops
    /\ online' = FALSE
    /\ stops' = stops \o <<StopTask("tx"), StopTask("rx")>>
    /\ loops' = [i \in 1..Len(loops) |->
                    IF loops[i].pc \in {"while", "recv", "callback"}
                    THEN [loops[i] EXCEPT !.stopped = TRUE] ELSE loops[i]]
    /\ call' = Call("modem_stop", "", online, NoArg, "none")
    /\ ncalls' = ncalls + 1
    /\ UNCHANGED <<mm_online, process, procs, rx_callback, stream,
                   tx_written, rx_stdin, delivered, sent, feed>>

Callbacks == {"None", "cb"}

SetRxCallback(cb) ==
    /\ ncalls < MaxCalls
    /\ rx_callback' = cb
    /\ call' = Call("set_rx_callback", "", online, NoArg, "none")
    /\ ncalls' = ncalls + 1
    /\ UNCHANGED <<online, mm_online, process, procs, loops, stops, stream,
                   tx_written, rx_stdin, delivered, sent, feed>>

-----------------------------------------------------------------------------
(* Modem.send and MiniModem.send *)

\* type(data) != bytes
IsBytes_AnyType(d) == TRUE
IsBytes(d) == d.type = "bytes"

\* HDLC.START + data + HDLC.STOP
Wrap_NoStop(data) == START \o data
Wrap_StopFirst(data) == STOP \o data \o START
Wrap(data) == START \o data \o STOP

\* what self.process.stdin.write / flush can do: the write goes through
\* ("none") or an error is raised and nothing reaches the subprocess.  Once
\* terminate was called the communicate thread closes stdin at a time of its
\* own, so either may happen until the subprocess is gone.
WriteOutcomesOf(ch) ==
    LET p == process[ch] IN
    IF p = 0 THEN {"AttributeError"}
    ELSE IF procs[p].st = "running" THEN {"none"}
    ELSE IF procs[p].st = "terminating" THEN {"none", "ValueError"}
    ELSE {"ValueError", "BrokenPipeError"}

WriteOutcomes == WriteOutcomesOf("tx")

SendArgs ==
    {[type |-> "bytes", val |-> v] : v \in {<<>>, Letter, <<195>>}}
    \cup {[type |-> t, val |-> Letter] : t \in {"str", "bytearray"}}

Send(d) ==
    /\ ncalls < MaxCalls
    /\ ncalls' = ncalls + 1
    /\ IF ~IsBytes(d)
       THEN /\ call' = Call("send", "tx", online, d, "TypeError")
            /\ UNCHANGED <<tx_written, rx_stdin, sent>>
       ELSE \E r \in WriteOutcomes :
            /\ call' = Call("send", "tx", online, d, r)
            /\ IF r = "none"
               THEN /\ tx_written' = tx_written \o Wrap(d.val)
                    /\ sent' = Append(sent, d.val)
                    /\ UNCHANGED rx_stdin
               ELSE UNCHANGED <<tx_written, rx_stdin, sent>>
    /\ UNCHANGED <<online, mm_online, process, procs, loops, stops,
                   rx_callback, stream, delivered, feed>>

-----------------------------------------------------------------------------
(* MiniModem.send and MiniModem.receive called on a channel directly *)

ChannelData == {Letter, <<195>>}

\* self.process.stdin.write(data); self.process.stdin.flush(): the bytes go to
\* the stdin pipe of the channel's subprocess, whatever the channel's mode
MiniModemSend(ch, data) ==
    /\ ncalls < MaxCalls
    /\ ncalls' = ncalls + 1
    /\ \E r \in WriteOutcomesOf(ch) :
          /\ call' = Call("mm_send", ch, mm_online[ch],
                          [type |-> "bytes", val |-> data], r)
          /\ tx_written' = IF r = "none" /\ ch = "tx"
                           THEN tx_written \o data ELSE tx_written
          /\ rx_stdin' = IF r = "none" /\ ch = "rx"
                         THEN rx_stdin \o data ELSE rx_stdin
    /\ UNCHANGED <<online, mm_online, process, procs, loops, stops,
                   rx_callback, stream, delivered, sent, feed>>

\* return self.process.stdout.read(size) with size = 1: the call returns when
\* the read does, with a byte of the device on a receive subprocess, and with
\* b'' at end of file once the subprocess is gone; a transmit subprocess
\* prints nothing, so on it the read blocks until then
MiniModemReceive(ch) ==
    LET p    == process[ch]
        eof  == ~Alive(p)
        data == IF p = 0 \/ eof THEN <<>> ELSE <<Head(stream)>>
    IN
    /\ ncalls < MaxCalls
    /\ p /= 0 => (eof \/ (ch = "rx" /\ stream /= <<>>))
    /\ ncalls' = ncalls + 1
    /\ call' = Call("mm_receive", ch, mm_online[ch],
                    [type |-> "bytes", val |-> data],
                    IF p = 0 THEN "AttributeError" ELSE "none")
    /\ stream' = IF p = 0 \/ eof THEN stream ELSE Tail(stream)
    /\ UNCHANGED <<online, mm_online, process, procs, loops, stops,
                   rx_callback, tx_written, rx_stdin, delivered, sent, feed>>

-----------------------------------------------------------------------------
(* Modem._rx_loop, one thread per Modem.start *)

\* while self.online:
RxWhile(i) ==
    /\ loops[i].pc = "while"
    /\ loops' = [loops EXCEPT ![i] =
          IF ~online THEN [@ EXCEPT !.pc = "done"]
          ELSE IF process["rx"] = 0 THEN [@ EXCEPT !.pc = "AttributeError"]
          ELSE [@ EXCEPT !.pc = "recv", !.proc = process["rx"]]]
    /\ UNCHANGED <<online, mm_online, process, procs, stops, rx_callback,
                   stream, tx_written, rx_stdin, delivered, sent, call, ncalls, feed>>

\* if self.rx_callback != None:
HasCallback_Always(cb) == TRUE
HasCallback(cb) == cb /= "None"

\* the blocking read returns: a byte of the device, or b'' at end of file once
\* the subprocess is gone; then the pass over the buffer, the callback
\* invocation and the sleep
RxReceive(i) ==
    LET eof  == ~Alive(loops[i].proc)
        raw  == IF eof THEN <<>> ELSE <<Head(stream)>>
        r    == FramePass(loops[i].buf \o Validate(raw))
        call_it == r.receive /\ HasCallback(rx_callback)
    IN
    /\ loops[i].pc = "recv"
    /\ eof \/ stream /= <<>>
    /\ stream' = IF eof THEN stream ELSE Tail(stream)
    /\ loops' = [loops EXCEPT ![i].buf = r.buf,
                              ![i].pc = IF call_it THEN "callback" ELSE "while"]
    /\ delivered' = IF call_it THEN Append(delivered, r.data) ELSE delivered
    /\ UNCHANGED <<online, mm_online, process, procs, stops, rx_callback,
                   tx_written, rx_stdin, sent, call, ncalls, feed>>

\* self.rx_callback(data) returns
RxCallbackReturn(i) ==
    /\ loops[i].pc = "callback"
    /\ loops' = [loops EXCEPT ![i].pc = "while"]
    /\ UNCHANGED <<online, mm_online, process, procs, stops, rx_callback,
                   stream, tx_written, rx_stdin, delivered, sent, call, ncalls, feed>>

-----------------------------------------------------------------------------
(* The link from construction on: Modem(..., start=False) *)

LinkFeeds == {Feed("frame", <<>>, Letter, <<>>, <<>>)}

Init ==
    /\ online = FALSE
    /\ mm_online = [ch \in Channels |-> FALSE]
    /\ process = [ch \in Channels |-> 0]
    /\ procs = <<>>
    /\ loops = <<>>
    /\ stops = <<>>
    /\ rx_callback = "None"
    /\ feed \in LinkFeeds
    /\ stream = Build(feed)
    /\ tx_written = <<>>
    /\ rx_stdin = <<>>
    /\ delivered = <<>>
    /\ sent = <<>>
    /\ call = Call("init", "", FALSE, NoArg, "none")
    /\ ncalls = 0

\* the steps of the MiniModem.stop calls under way and of the subprocesses
StopSteps ==
    \/ \E k \in 1..Len(stops) : StopTerminate(k)
    \/ \E k \in 1..Len(stops) : StopKill(k)
    \/ \E p \in 1..Len(procs) : ProcExit(p)

\* the steps of the receive-loop threads
RxSteps ==
    \/ \E i \in 1..Len(loops) : RxWhile(i)
    \/ \E i \in 1..Len(loops) : RxReceive(i)
    \/ \E i \in 1..Len(loops) : RxCallbackReturn(i)

\* the duplex link and its two channels: every call of the public interface
\* and every step of the threads
Next ==
    \/ ModemStart
    \/ ModemStop
    \/ \E cb \in Callbacks : SetRxCallback(cb)
    \/ \E ch \in Channels : MiniModemStart(ch)
    \/ \E ch \in Channels : MiniModemStop(ch)
    \/ \E d \in SendArgs : Send(d)
    \/ \E ch \in Channels, data \in ChannelData : MiniModemSend(ch, data)
    \/ \E ch \in Channels : MiniModemReceive(ch)
    \/ StopSteps
    \/ RxSteps

Spec == Init /\ [][Next]_vars

\* one half-duplex channel driven directly
NextChannel ==
    \/ \E ch \in Channels : MiniModemStart(ch)
    \/ \E ch \in Channels : MiniModemStop(ch)
    \/ StopSteps

SpecChannel == Init /\ [][NextChannel]_vars

\* the transmit path of the link
NextSend ==
    \/ ModemStart
    \/ ModemStop
    \/ \E d \in SendArgs : Send(d)
    \/ StopSteps

SpecSend == Init /\ [][NextSend]_vars

-----------------------------------------------------------------------------
(* The receive loop of a running link with a callback registered: the state
   after Modem(), set_rx_callback(cb), with the device about to produce the
   bytes of one feed *)

RunningInit(feeds) ==
    /\ online = TRUE
    /\ mm_online = [ch \in Channels |-> TRUE]
    /\ process = [ch \in Channels |-> IF ch = "rx" THEN 1 ELSE 2]
    /\ procs = <<[ch |-> "rx", st |-> "running"], [ch |-> "tx", st |-> "running"]>>
    /\ loops = <<NewLoop>>
    /\ stops = <<>>
    /\ rx_callback = "cb"
    /\ feed \in feeds
    /\ stream = Build(feed)
    /\ tx_written = <<>>
    /\ rx_stdin = <<>>
    /\ delivered = <<>>
    /\ sent = <<>>
    /\ call = Call("set_rx_callback", "", TRUE, NoArg, "none")
    /\ ncalls = 2

\* payloads of the letter a alone
PlainPayloads == {Repeat(Letter, n) : n \in 0..(MTU + 1)}

\* payloads over the whole alphabet, up to one byte over the MTU, and payloads
\* of letters and undecodable bytes, up to two bytes over it
Payloads ==
    SeqsOver(Alphabet, 0, MTU + 1) \cup SeqsOver({97, 195}, 0, MTU + 2)

\* noise before the start flag: anything short, and a stop flag followed by
\* garbage
NoisesBefore ==
    SeqsOver(Alphabet, 0, MaxNoiseBefore)
    \cup {STOP \o Repeat(Letter, n) : n \in 0..MaxGarbage}

NoisesAfter == SeqsOver(Alphabet, 0, MaxNoiseAfter)

FrameFeeds ==
    {Feed("frame", <<>>, P, <<>>, <<>>) : P \in Payloads}
    \cup {Feed("frame", pre, P, <<>>, <<>>) :
            pre \in NoisesBefore, P \in PlainPayloads}
    \cup {Feed("frame", <<>>, P, <<>>, post) :
            P \in PlainPayloads, post \in NoisesAfter}

InitFrame == RunningInit(FrameFeeds)

SpecFrame == InitFrame /\ [][RxSteps]_vars

\* payloads a frame can carry: not empty, within the MTU, decodable, and
\* holding neither flag
ValidPayloads ==
    {P \in SeqsOver(TextAlphabet, 1, MTU) : NoDelimiter(P)}

OneBytePayloads == {<<b>> : b \in TextAlphabet}

TwoFeeds ==
    {Feed("two", <<>>, A, B, <<>>) : A \in ValidPayloads, B \in OneBytePayloads}
    \cup {Feed("two", <<>>, A, B, <<>>) :
            A \in OneBytePayloads, B \in ValidPayloads}

InitTwo == RunningInit(TwoFeeds)

SpecTwo == InitTwo /\ [][RxSteps]_vars

\* noise streams longer than the clearing threshold: letters around a short
\* core that sits at the beginning or where the threshold is crossed
NoiseLen == ClearFactor * Len(START) + NoiseExtra

\* a start flag with one undecodable byte inside it
SplitStarts == {<<124, 195, 45, 62>>, <<124, 45, 195, 62>>}

NoiseCores == SeqsOver(Alphabet, 0, MaxNoiseBefore) \cup SplitStarts

CoreOffsets ==
    {0} \cup {ClearFactor * Len(START) - k : k \in 0..(MaxNoiseBefore + 2)}

NoiseFeeds ==
    {Feed("noise",
          Repeat(Letter, i) \o c \o Repeat(Letter, NoiseLen - i - Len(c)),
          <<>>, <<>>, <<>>) : i \in CoreOffsets, c \in NoiseCores}

InitNoise == RunningInit(NoiseFeeds)

NextNoise ==
    \/ \E i \in 1..Len(loops) : RxWhile(i)
    \/ \E i \in 1..Len(loops) : RxReceive(i)

SpecNoise == InitNoise /\ [][NextNoise]_vars

-----------------------------------------------------------------------------
(* Properties of the receive loop *)

\* number of bytes of the feed up to and including the first frame's stop flag
FirstFrameEnd == Len(feed.pre) + Len(START) + Len(feed.P) + Len(STOP)

\* the bytes of the feed read so far that came after the first frame
AfterFirstFrame == SubSeq(Build(feed), FirstFrameEnd + 1, Consumed)

IsSuffix(s, t) == Len(s) <= Len(t) /\ SliceFrom(t, Len(t) - Len(s)) = s

CallbacksInProgress == Cardinality({i \in 1..Len(loops) : loops[i].pc = "callback"})

LoopAlive(i) == loops[i].pc \in {"while", "recv", "callback"}

\* C1, for the payloads a frame can carry (not empty, decodable, within the
\* MTU, holding neither flag): whatever noise comes before the start flag and
\* after the stop flag, the callback is invoked with P, exactly once, and
\* with nothing else: nothing but P is ever delivered, and P has been
\* delivered once the stop flag has been read.
C1_FrameDeliveredOnce ==
    (feed.kind = "frame" /\ feed.P \in ValidPayloads)
    => /\ delivered \in {<<>>, <<feed.P>>}
       /\ Consumed >= FirstFrameEnd => delivered = <<feed.P>>

\* C2: two concatenated valid frames START A STOP START B STOP are delivered
\* as A and then B, each exactly when its stop flag has been read, and no two
\* callback invocations are in progress at once.
C2_TwoFramesInOrder ==
    feed.kind = "two"
    => /\ Consumed < FirstFrameEnd => delivered = <<>>
       /\ (Consumed >= FirstFrameEnd /\ Consumed < Len(Build(feed)))
            => delivered = <<feed.P>>
       /\ Consumed = Len(Build(feed)) => delivered = <<feed.P, feed.Q>>
       /\ CallbacksInProgress <= 1

C2_Witness ==
    /\ feed.kind = "two"
    /\ feed.P /= feed.Q
    /\ Len(feed.P) = MTU
    /\ delivered = <<feed.P, feed.Q>>

\* no callback for the first frame's region, and once its stop flag has been
\* read the buffer holds only bytes that arrived after it
OversizeDropped ==
    /\ delivered = <<>>
    /\ Consumed >= FirstFrameEnd
         => \A i \in 1..Len(loops) :
                IsSuffix(loops[i].buf, Validated(AfterFirstFrame))

\* C3 as claimed: for every payload longer than the MTU framed as
\* START payload STOP, no callback invocation occurs and the buffer is left
\* after the consumed stop flag.
C3_OversizeDropped_AnyPayload ==
    (feed.kind = "frame" /\ feed.pre = <<>> /\ Len(feed.P) > MTU)
    => OversizeDropped

\* C3 as amended: the same for every payload whose bytes, once the
\* undecodable ones are dropped, still number more than the MTU and hold
\* neither flag.
C3_OversizeDropped ==
    (/\ feed.kind = "frame"
     /\ feed.pre = <<>>
     /\ Len(Validated(feed.P)) > MTU
     /\ NoDelimiter(Validated(feed.P)))
    => OversizeDropped

C3_Witness ==
    /\ feed.kind = "frame"
    /\ feed.pre = <<>>
    /\ Len(Validated(feed.P)) > MTU
    /\ NoDelimiter(Validated(feed.P))
    /\ feed.post /= <<>>
    /\ Consumed = Len(Build(feed))
    /\ delivered = <<>>
    /\ loops[1].buf = Validated(feed.post)

BufferWithinNoiseBound ==
    \A i \in 1..Len(loops) : Len(loops[i].buf) <= ClearFactor * Len(START)

\* C4 as claimed: for every stream of bytes that never contains a start flag,
\* the buffer at the end of every loop iteration is at most 10 times the
\* start flag long.
C4_NoiseBounded_RawStream ==
    (feed.kind = "noise" /\ ~Contains(Build(feed), START))
    => BufferWithinNoiseBound

\* C4 as amended: the same for every stream that holds no start flag once its
\* undecodable bytes are dropped.
C4_NoiseBounded ==
    (feed.kind = "noise" /\ ~Contains(Validated(Build(feed)), START))
    => BufferWithinNoiseBound

C4_Witness ==
    /\ feed.kind = "noise"
    /\ ~Contains(Validated(Build(feed)), START)
    /\ Len(Validated(Build(feed))) > ClearFactor * Len(START)
    /\ Consumed = Len(Build(feed))
    /\ Len(loops[1].buf) < Len(Validated(Build(feed)))

\* C5: for the stream STOP A START B STOP, A and B holding no flag, B not
\* empty and within the MTU, B is delivered once its stop flag has been read
\* and the loop is still running.
C5_FrameAfterLeadingStop ==
    (/\ feed.kind = "frame"
     /\ \E n \in 0..MaxGarbage : feed.pre = STOP \o Repeat(Letter, n)
     /\ feed.P /= <<>>
     /\ Len(feed.P) <= MTU
     /\ NoDelimiter(feed.P)
     /\ Consumed >= FirstFrameEnd)
    => /\ delivered = <<feed.P>>
       /\ \A i \in 1..Len(loops) : LoopAlive(i)

-----------------------------------------------------------------------------
(* Properties of send, start and stop *)

\* the step is a call of the public interface named op
IsCall(op) == ncalls' = ncalls + 1 /\ call'.op = op

TxRunning == process["tx"] /= 0 /\ procs[process["tx"]].st = "running"

RECURSIVE Framed(_)
Framed(ps) ==
    IF ps = <<>> THEN <<>>
    ELSE <<124, 45, 62>> \o Head(ps) \o <<60, 45, 124>> \o Framed(Tail(ps))

\* C6: every Modem.send of a byte payload P made while the transmit
\* subprocess is running returns normally and adds exactly START P STOP to
\* the bytes written; no other step writes anything but such a frame, so the
\* bytes written are the frames of the payloads sent, in call order.
C6_SendWritesFrames ==
    [][LET frame == <<124, 45, 62>> \o call'.arg.val \o <<60, 45, 124>>
           send  == IsCall("send") /\ call'.arg.type = "bytes"
       IN  IF send /\ TxRunning
           THEN call'.raised = "none" /\ tx_written' = tx_written \o frame
           ELSE \/ tx_written' = tx_written
                \/ send /\ tx_written' = tx_written \o frame]_vars

C6_Witness ==
    /\ call.op = "send"
    /\ call.raised = "none"
    /\ Len(sent) = 2
    /\ sent[1] /= sent[2]
    /\ tx_written = Framed(sent)

\* C7: Modem.send with a payload that is not of type bytes raises TypeError
\* and changes nothing: nothing is written and the link and channel states
\* are as before.
C7_SendRejectsNonBytes ==
    [][(IsCall("send") /\ call'.arg.type /= "bytes")
       => /\ call'.raised = "TypeError"
          /\ UNCHANGED <<online, mm_online, process, procs, loops, stops,
                         rx_callback, stream, tx_written, rx_stdin, delivered, sent>>]_vars

C7_Witness ==
    /\ call.op = "send"
    /\ call.arg.type = "str"
    /\ call.raised = "TypeError"
    /\ online
    /\ TxRunning

ProcsOf(ps, ch) == {k \in 1..Len(ps) : ps[k].ch = ch}

\* C8: start() on a channel that is Running launches no process for it,
\* keeps its process reference and leaves it Running.
C8_StartRunningChannelNoOp ==
    [][\A ch \in Channels :
          ((IsCall("mm_start") /\ call'.ch = ch /\ mm_online[ch])
           \/ (IsCall("modem_start") /\ mm_online[ch]))
          => /\ ProcsOf(procs', ch) = ProcsOf(procs, ch)
             /\ process'[ch] = process[ch]
             /\ mm_online'[ch]]_vars

C8_Witness ==
    /\ call.op = "mm_start"
    /\ call.was_online
    /\ mm_online[call.ch]
    /\ Cardinality(ProcsOf(procs, call.ch)) = 1
    /\ procs[process[call.ch]].st = "running"

\* C9: start() on a link that is Running spawns no receive-loop thread.
C9_StartRunningLinkNoOp ==
    [][(IsCall("modem_start") /\ online) => loops' = loops]_vars

\* C10: stop() on a channel that is Stopped, stopped earlier or never
\* started, raises no error and neither terminates nor kills a process.
C10_StopStoppedChannelNoOp ==
    \A k \in 1..Len(stops) :
        ~stops[k].was_online
        => /\ stops[k].pc /= "AttributeError"
           /\ stops[k].killed = 0

-----------------------------------------------------------------------------
(* The link driven through Modem.start, Modem.stop and set_rx_callback only,
   with the threads they spawn *)

NextLink ==
    \/ ModemStart
    \/ ModemStop
    \/ \E cb \in Callbacks : SetRxCallback(cb)
    \/ StopSteps
    \/ RxSteps

SpecLink == Init /\ [][NextLink]_vars

\* C11: the link is marked Running only when both its receive channel and
\* its transmit channel are Running, whatever the interleaving of
\* Modem.start, Modem.stop and the stop tasks they spawn.
C11_LinkRunningOnlyWithBothChannels ==
    online => (mm_online["rx"] /\ mm_online["tx"])

-----------------------------------------------------------------------------
(* The receive loop of a running link with no callback registered yet: the
   state after Modem(), with the device about to produce two frames while
   set_rx_callback is called at any moment *)

CallbackFeeds ==
    {Feed("two", <<>>, A, B, <<>>) : A \in OneBytePayloads, B \in OneBytePayloads}

InitCallback ==
    /\ online = TRUE
    /\ mm_online = [ch \in Channels |-> TRUE]
    /\ process = [ch \in Channels |-> IF ch = "rx" THEN 1 ELSE 2]
    /\ procs = <<[ch |-> "rx", st |-> "running"], [ch |-> "tx", st |-> "running"]>>
    /\ loops = <<NewLoop>>
    /\ stops = <<>>
    /\ rx_callback = "None"
    /\ feed \in CallbackFeeds
    /\ stream = Build(feed)
    /\ tx_written = <<>>
    /\ rx_stdin = <<>>
    /\ delivered = <<>>
    /\ sent = <<>>
    /\ call = Call("modem_start", "", FALSE, NoArg, "none")
    /\ ncalls = 1

NextCallback ==
    \/ \E cb \in Callbacks : SetRxCallback(cb)
    \/ RxSteps

SpecCallback == InitCallback /\ [][NextCallback]_vars

\* the step reads the last byte of the stop flag of one of the two frames
CompletesFrame ==
    /\ Consumed' /= Consumed
    /\ Consumed' \in {FirstFrameEnd, Len(Build(feed))}

\* C12: a frame found while no callback is registered is dropped and not
\* queued: the step that completes it delivers nothing and leaves nothing of
\* it in the buffer, and no later step, registering a callback included,
\* delivers it; a frame completed while a callback is registered is delivered
\* in the step that completes it.
C12_FrameWithoutCallbackDropped ==
    [][/\ (CompletesFrame /\ rx_callback = "None")
          => /\ delivered' = delivered
             /\ \A i \in 1..Len(loops) : loops'[i].buf = <<>>
       /\ (CompletesFrame /\ rx_callback /= "None")
          => delivered' = Append(delivered,
                 IF Consumed' = FirstFrameEnd THEN feed.P ELSE feed.Q)
       /\ ~CompletesFrame => delivered' = delivered]_vars

\* the first frame was completed with no callback and dropped, a callback was
\* registered, and the second frame alone was delivered
C12_Witness ==
    /\ feed.kind = "two"
    /\ feed.P /= feed.Q
    /\ stream = <<>>
    /\ rx_callback = "cb"
    /\ call.op = "set_rx_callback"
    /\ delivered = <<feed.Q>>

-----------------------------------------------------------------------------
(* One half-duplex channel driven directly, send and receive included *)

NextDirect ==
    \/ \E ch \in Channels : MiniModemStart(ch)
    \/ \E ch \in Channels : MiniModemStop(ch)
    \/ \E ch \in Channels, data \in ChannelData : MiniModemSend(ch, data)
    \/ \E ch \in Channels : MiniModemReceive(ch)
    \/ StopSteps

SpecDirect == Init /\ [][NextDirect]_vars

\* C13: send on a receive-direction channel fails and writes nothing to the
\* channel's subprocess, and receive on a transmit-direction channel fails:
\* send returns normally only on a transmit channel, receive only on a
\* receive channel.
C13_DirectionEnforced ==
    /\ (call.op = "mm_send" /\ call.ch = "rx")
       => (call.raised /= "none" /\ rx_stdin = <<>>)
    /\ (call.op = "mm_receive" /\ call.ch = "tx") => call.raised /= "none"

\* the read of loop i returns in this step
ReadReturns(i) == loops[i].pc = "recv" /\ loops'[i].pc /= "recv"

\* C14: once Modem.stop has marked the link not Running, a byte read that was
\* in flight and returns afterwards is not processed: the callback is not
\* invoked for it, even if the byte completes a frame.
C14_NoCallbackAfterStop ==
    [][\A i \in 1..Len(loops) :
          (~online /\ ReadReturns(i)) => delivered' = delivered]_vars

\* C15: a receive loop that was running when Modem.stop marked the link not
\* Running exits at its next test of the flag, once its read in flight has
\* returned, also when Modem.start is called again after the stop.
C15_StoppedLoopExits ==
    [][\A i \in 1..Len(loops) :
          (loops[i].stopped /\ loops[i].pc = "while" /\ loops'[i] /= loops[i])
          => loops'[i].pc = "done"]_vars

\* C16: MiniModem.stop on a running channel asks for termination first and
\* kills only afterwards, once the timeout has passed, a process that has
\* still not exited; when stop returns, the process it asked to terminate
\* has exited or has been killed.
C16_StopTwoPhase ==
    \A k \in 1..Len(stops) :
        /\ stops[k].killed /= 0 => (stops[k].pc = "done" /\ stops[k].target /= 0)
        /\ (stops[k].was_online /\ stops[k].pc = "done")
           => procs[stops[k].target].st \in {"exited", "killed"}

\* C19: the kill at the end of a stop of a running channel only ever goes to the process that this
\* stop asked to terminate; a process launched by a start during the stop's
\* wait is never killed by it.
C19_KillOnlyOwnProcess ==
    \A k \in 1..Len(stops) :
        (stops[k].was_online /\ stops[k].killed /= 0)
        => stops[k].killed = stops[k].target

-----------------------------------------------------------------------------
(* The receive loop of a running link on long streams: a frame behind letter
   noise of every length up to past the clearing threshold, and a start flag
   followed by a run of letters longer than a frame can be *)

LongNoiseFeeds ==
    {Feed("frame", Repeat(Letter, n), P, <<>>, <<>>) :
        n \in 0..NoiseLen, P \in {Letter, Repeat(Letter, MTU)}}

RunLen == MTU + Len(START) + Len(STOP) + NoiseExtra

OpenFrameFeeds ==
    {Feed("noise", START \o Repeat(Letter, RunLen), <<>>, <<>>, <<>>)}

InitLong == RunningInit(LongNoiseFeeds \cup OpenFrameFeeds)

SpecLong == InitLong /\ [][RxSteps]_vars

\* C17: clearing a buffer that holds no start flag and is longer than 10
\* times the start flag never loses a start flag split over iterations: for
\* noise of any length holding neither flag, followed by START P STOP one byte
\* per iteration with P valid, P is delivered once the stop flag is read.
C17_SplitStartSurvivesClearing ==
    (/\ feed.kind = "frame"
     /\ NoDelimiter(feed.pre)
     /\ feed.P \in ValidPayloads
     /\ Consumed >= FirstFrameEnd)
    => delivered = <<feed.P>>

\* C20: at the end of every loop iteration the buffer is at most
\* MTU + len(START) + len(STOP) long; in particular it stays so for a start
\* flag followed by a long run of bytes holding neither flag.
C20_BufferBounded ==
    feed \in OpenFrameFeeds
    => \A i \in 1..Len(loops) :
          Len(loops[i].buf) <= MTU + Len(START) + Len(STOP)

-----------------------------------------------------------------------------
(* Round trip: the state after Modem(), set_rx_callback(cb) and send(P) on a
   link whose receive device produces, unchanged and without noise, the bytes
   the transmit subprocess was given *)

RoundTripPayloads == {P \in SeqsOver(Alphabet, 0, MTU) : NoDelimiter(P)}

InitRoundTrip ==
    /\ online = TRUE
    /\ mm_online = [ch \in Channels |-> TRUE]
    /\ process = [ch \in Channels |-> IF ch = "rx" THEN 1 ELSE 2]
    /\ procs = <<[ch |-> "rx", st |-> "running"], [ch |-> "tx", st |-> "running"]>>
    /\ loops = <<NewLoop>>
    /\ stops = <<>>
    /\ rx_callback = "cb"
    /\ feed \in {Feed("frame", <<>>, P, <<>>, <<>>) : P \in RoundTripPayloads}
    /\ sent = <<feed.P>>
    /\ tx_written = Wrap(feed.P)
    /\ stream = tx_written
    /\ rx_stdin = <<>>
    /\ delivered = <<>>
    /\ call = Call("send", "tx", TRUE, [type |-> "bytes", val |-> feed.P], "none")
    /\ ncalls = 3

SpecRoundTrip == InitRoundTrip /\ [][RxSteps]_vars

\* the callback was invoked with the payload sent, once, and with nothing
\* else, by the time the loop has read all the bytes written
RoundTrip ==
    /\ delivered \in {<<>>, sent}
    /\ stream = <<>> => delivered = sent

\* C18 as claimed: for every payload within the MTU that holds neither flag,
\* the empty payload and payloads with bytes 0x80..0xFF included, the bytes
\* Modem.send writes, read back by the receive loop, give exactly one
\* callback invocation, with the payload.
C18_RoundTrip_AnyPayload ==
    Len(sent[1]) <= MTU => RoundTrip

\* C18 as amended: the same for every payload that is not empty and holds
\* only bytes that decode on their own (below 0x80).
C18_RoundTrip ==
    (Len(sent[1]) \in 1..MTU /\ Validated(sent[1]) = sent[1]) => RoundTrip

C18_Witness ==
    /\ Len(sent[1]) = MTU
    /\ Validated(sent[1]) = sent[1]
    /\ tx_written = START \o sent[1] \o STOP
    /\ stream = <<>>
    /\ delivered = sent

====
